---- MODULE Spec2Model ----
(***************************************************************************)
(* Event-study abnormal-return engine (src/src/backtester.py,              *)
(* class BiotechEventBacktester) as a state machine.                       *)
(*                                                                         *)
(* Numbers.  Prices are carried by their natural logarithm (an integer     *)
(* "log-price" k stands for the price e^k), so np.log(p_t / p_{t-1}) is    *)
(* the integer difference of two log-prices.  The OLS intercept and slope  *)
(* are rationals; they are carried as numerators over one common           *)
(* denominator, and every sum that uses them is carried over that          *)
(* denominator too.  Floating-point rounding is not modelled.              *)
(*                                                                         *)
(* Positions are 0-based as in pandas; TLA+ sequences are 1-based, so      *)
(* position p of a frame is element p + 1 of its row sequence.             *)
(***************************************************************************)
EXTENDS Integers, Sequences, FiniteSets, TLC

\* ------------------------------------------------------------- bounds
\* Largest number of raw price rows a download returns.
MaxDays == 6
\* Largest number of rows of an events_df.
MaxEvents == 2
\* No further call is made on an engine once self.results holds this many
\* records (self.results only grows).
MaxResults == 2

\* ------------------------------------------------------------- inputs
\* tickers argument of fetch_market_data
Tickers == <<"X">>
\* a ticker that is in no download
UnknownTicker == "ZZZ"
\* (event_window, estimation_window) configurations the engine is built with
Configs ==
    { [event_window |-> <<-1, 0>>, estimation_window |-> 1],
      [event_window |-> <<-1, 1>>, estimation_window |-> 1],
      [event_window |-> <<-1, 1>>, estimation_window |-> 2],
      [event_window |-> <<-2, 0>>, estimation_window |-> 2],
      [event_window |-> <<0, 0>>,  estimation_window |-> 1],
      [event_window |-> <<0, 0>>,  estimation_window |-> 2],
      [event_window |-> <<1, 1>>,  estimation_window |-> 1] }
\* the same, with an empty estimation window (estimation_window = 0) added
ConfigsAnyWindow ==
    Configs \cup
    { [event_window |-> <<-1, 1>>, estimation_window |-> 0],
      [event_window |-> <<0, 0>>,  estimation_window |-> 0],
      [event_window |-> <<1, 1>>,  estimation_window |-> 0] }

\* Log-price paths a download is cut from, by symbol (repeating): one with a
\* moving benchmark, one with a benchmark that does not move.
PricePaths ==
    { [X |-> <<1, 1, 3, 2, 4, 2, 5>>, XBI |-> <<1, 0, 1, 1, 0, 2, 1>>],
      [X |-> <<1, 1, 3, 2, 4, 2, 5>>, XBI |-> <<1, 1, 1, 1, 1, 1, 1>>] }

LogPrice(path, sym, d) == path[sym][((d - 1) % Len(path[sym])) + 1]

\* ------------------------------------------------------------- values
\* A cell of a frame: a number, or NaN.
NaN == [ok |-> FALSE, v |-> 0]
Num(k) == [ok |-> TRUE, v |-> k]

\* market_data before fetch_market_data: None
NoFrame == [fetched |-> FALSE, columns |-> <<>>, rows |-> <<>>]

Range(s) == { s[i] : i \in 1..Len(s) }

RECURSIVE SumSeq(_)
SumSeq(s) == IF s = <<>> THEN 0 ELSE s[1] + SumSeq(Tail(s))

Abs(x) == IF x < 0 THEN -x ELSE x

\* ------------------------------------------------------ __init__
\* def __init__(self, benchmark_ticker='XBI', estimation_window=60, event_window=(-5, 1))
BiotechEventBacktester(benchmark_ticker, estimation_window, event_window) ==
    [ benchmark_ticker  |-> benchmark_ticker,
      estimation_window |-> estimation_window,
      event_window      |-> event_window,
      market_data       |-> NoFrame,
      results           |-> <<>> ]

\* ------------------------------------------------------ fetch_market_data
\* What yf.download(...)['Adj Close'] can return: one row per trading day,
\* dates ascending without repeats, a column per symbol, NaN where the
\* provider has no price.
Download(all_tickers, n, holes, path) ==
    [ fetched |-> TRUE,
      columns |-> all_tickers,
      rows    |-> [ d \in 1..n |->
                    [ date |-> d,
                      val  |-> [ s \in Range(all_tickers) |->
                                 IF <<s, d>> \in holes THEN NaN
                                 ELSE Num(LogPrice(path, s, d)) ] ] ] ]

\* data.shift(1): every row takes the values of the row before it, the first
\* row becomes NaN; the index is kept.
Shift1(data) ==
    [ data EXCEPT !.rows =
        [ i \in 1..Len(data.rows) |->
          [ date |-> data.rows[i].date,
            val  |-> [ s \in Range(data.columns) |->
                       IF i = 1 THEN NaN ELSE data.rows[i - 1].val[s] ] ] ] ]

\* np.log(a / b), cell by cell: NaN when either operand is NaN.
LogRatio(a, b) ==
    [ a EXCEPT !.rows =
        [ i \in 1..Len(a.rows) |->
          [ date |-> a.rows[i].date,
            val  |-> [ s \in Range(a.columns) |->
                       IF a.rows[i].val[s].ok /\ b.rows[i].val[s].ok
                       THEN Num(a.rows[i].val[s].v - b.rows[i].val[s].v)
                       ELSE NaN ] ] ] ]

\* (mutant) dropna(how='all'): only the rows that are all NaN are dropped.
DropNa_HowAll(frame) ==
    [ frame EXCEPT !.rows =
        SelectSeq(frame.rows, LAMBDA r : \E s \in Range(frame.columns) : r.val[s].ok) ]

\* DataFrame.dropna(): the rows with no NaN, in their order.
RowComplete(frame, row) == \A s \in Range(frame.columns) : row.val[s].ok

\* DataFrame.dropna()
DropNa(frame) ==
    [ frame EXCEPT !.rows = SelectSeq(frame.rows, LAMBDA r : RowComplete(frame, r)) ]

\* self.market_data = np.log(data / data.shift(1)).dropna()
LogReturns(data) == DropNa(LogRatio(data, Shift1(data)))

\* def fetch_market_data(self, tickers, start_date, end_date)
fetch_market_data(self, tickers, data) ==
    [ self EXCEPT !.market_data = LogReturns(data) ]

\* ------------------------------------------------------ pandas helpers
\* One bound of a positional slice, as Python normalises it for a sequence of
\* length len: a negative bound counts from the end, and a bound outside the
\* sequence is clamped to it (no IndexError for slices).
SliceIndex(len, k) ==
    IF k < 0 THEN (IF k + len < 0 THEN 0 ELSE k + len)
    ELSE (IF k > len THEN len ELSE k)

\* The positions series.iloc[start:stop] selects, in order.
ILocSlice(len, start, stop) ==
    LET a == SliceIndex(len, start)
        b == SliceIndex(len, stop)
    IN  [ i \in 1..(IF b > a THEN b - a ELSE 0) |-> a + i - 1 ]

\* frame[sym].iloc[positions]: the values of the column at these positions.
Take(frame, sym, positions) ==
    [ i \in 1..Len(positions) |-> frame.rows[positions[i] + 1].val[sym].v ]

\* frame.index.get_loc(date) on an index without repeats: the position of
\* date, or KeyError when the index does not hold it.
get_loc(frame, date) ==
    LET hits == { i \in 1..Len(frame.rows) : frame.rows[i].date = date }
    IN  IF hits = {} THEN [found |-> FALSE, pos |-> 0]
        ELSE [found |-> TRUE, pos |-> (CHOOSE i \in hits : TRUE) - 1]

\* ------------------------------------------------------ LinearRegression
RECURSIVE SumProd(_, _)
SumProd(a, b) == IF a = <<>> THEN 0 ELSE a[1] * b[1] + SumProd(Tail(a), Tail(b))

\* The least-squares line through n > 0 points with sums sx, sy and centred
\* sums Sxx = n*sum(x^2) - sum(x)^2, Sxy = n*sum(x*y) - sum(x)*sum(y):
\* coef_ = Sxy / Sxx, intercept_ = mean(y) - coef_ * mean(x); a constant x
\* (Sxx = 0) gets the minimum-norm solution coef_ = 0.  Both are given over
\* the denominator den.
LeastSquares(n, sx, sy, Sxx, Sxy) ==
    IF Sxx = 0
    THEN [kind |-> "fit", coef |-> 0, intercept |-> sy, den |-> n]
    ELSE [kind |-> "fit", coef |-> n * Sxy, intercept |-> sy * Sxx - Sxy * sx,
          den |-> n * Sxx]

\* LinearRegression().fit(X, y) for one regressor, X and y of equal length:
\* ValueError when they are empty.
LinearRegressionFit(X, y) ==
    IF Len(X) = 0
    THEN [kind |-> "ValueError", coef |-> 0, intercept |-> 0, den |-> 1]
    ELSE LeastSquares(Len(X), SumSeq(X), SumSeq(y),
                      Len(X) * SumProd(X, X) - SumSeq(X) * SumSeq(X),
                      Len(X) * SumProd(X, y) - SumSeq(X) * SumSeq(y))

\* ------------------------------------------------------ calculate_expected_return
\* (mutant) the lead is left out of est_start.
EstStart_NoLead(self, event_date_idx) ==
    event_date_idx - self.estimation_window

\* est_start = event_date_idx - self.estimation_window - abs(self.event_window[0])
EstStart(self, event_date_idx) ==
    event_date_idx - self.estimation_window - Abs(self.event_window[1])

\* (mutant) the estimation window runs up to the event day.
EstEnd_NoLead(self, event_date_idx) ==
    event_date_idx

\* est_end = event_date_idx - abs(self.event_window[0])
EstEnd(self, event_date_idx) ==
    event_date_idx - Abs(self.event_window[1])

\* (mutant) if est_start <= 0: return None
NotEnoughHistory_OffByOne(est_start) == est_start <= 0

\* if est_start < 0: return None
NotEnoughHistory(est_start) == est_start < 0

\* The positions of .iloc[est_start:est_end]
EstimationWindow(self, event_date_idx) ==
    ILocSlice(Len(self.market_data.rows), EstStart(self, event_date_idx),
              EstEnd(self, event_date_idx))

NoParams == [kind |-> "None", alpha |-> 0, beta |-> 0, den |-> 1, est |-> <<>>]

\* beta = model.coef_[0][0]; alpha = model.intercept_[0]; return alpha, beta
\* (or the ValueError of fit).  est: the positions of the regression sample.
AlphaBeta(model, est) ==
    IF model.kind = "ValueError"
    THEN [kind |-> "ValueError", alpha |-> 0, beta |-> 0, den |-> 1, est |-> est]
    ELSE [kind |-> "params", alpha |-> model.intercept, beta |-> model.coef,
          den |-> model.den, est |-> est]

\* y = market_data[stock_ticker].iloc[..]; X = market_data[benchmark].iloc[..];
\* model = LinearRegression().fit(X, y)
FitMarketModel(self, stock_ticker, est) ==
    AlphaBeta(LinearRegressionFit(Take(self.market_data, self.benchmark_ticker, est),
                                  Take(self.market_data, stock_ticker, est)),
              est)

\* def calculate_expected_return(self, stock_ticker, event_date_idx):
\* None, (alpha, beta), or the ValueError of fit.
calculate_expected_return(self, stock_ticker, event_date_idx) ==
    IF NotEnoughHistory(EstStart(self, event_date_idx))
    THEN NoParams
    ELSE FitMarketModel(self, stock_ticker, EstimationWindow(self, event_date_idx))

\* ------------------------------------------------------ run_event_study
\* pd.to_datetime(row['event_date']): the text of a calendar day becomes the
\* timestamp of that day (here: its day number).
to_datetime(event_date) == event_date.ymd

\* ticker not in self.market_data.columns
TickerMissing(self, ticker) == ticker \notin Range(self.market_data.columns)

\* (mutant) the KeyError of get_loc is not caught.
OnKeyError_Propagate == "raise"

\* except KeyError: continue
OnKeyError == "continue"

\* if not params: truth value of what calculate_expected_return returned
\* (None is false; a 2-tuple is true whatever it holds).
NotParams(params) == params.kind = "None"

\* expected_returns = alpha + (beta * market_returns), over den
ExpectedReturn(params, market_return) == params.alpha + params.beta * market_return

\* (mutant) abnormal_returns = real_returns + expected_returns
AbnormalReturn_Added(params, real_return, expected_return) ==
    params.den * real_return + expected_return

\* abnormal_returns = real_returns - expected_returns, over den
AbnormalReturn(params, real_return, expected_return) ==
    params.den * real_return - expected_return

\* win_start = event_idx + self.event_window[0]
WinStart(self, event_idx) == event_idx + self.event_window[1]

\* win_end = event_idx + self.event_window[1]
WinEnd(self, event_idx) == event_idx + self.event_window[2]

\* The positions of .iloc[win_start:win_end+1]
TradeWindow(self, event_idx) ==
    ILocSlice(Len(self.market_data.rows), WinStart(self, event_idx),
              WinEnd(self, event_idx) + 1)

NoRecord == [Ticker |-> "", Event_Date |-> 0, Quality_Score |-> "",
             CAR |-> [num |-> 0, den |-> 1], Real_Return |-> 0]

\* What one pass of the loop body did with one row: kind is "no_ticker",
\* "no_date", "no_history" (the three continue statements), "record" (the
\* append) or the exception that left the loop.
Outcome(kind, row, event_idx, params, win, record) ==
    [kind |-> kind, row |-> row, event_idx |-> event_idx, params |-> params,
     win |-> win, record |-> record]

\* car = abnormal_returns.sum(), over den
Car(params, real_returns, market_returns) ==
    SumSeq([ i \in 1..Len(real_returns) |->
             AbnormalReturn(params, real_returns[i],
                            ExpectedReturn(params, market_returns[i])) ])

\* The dict appended to self.results
ResultRecord(row, params, real_returns, market_returns) ==
    [ Ticker        |-> row.ticker,
      Event_Date    |-> to_datetime(row.event_date),
      Quality_Score |-> row.quality_score,
      CAR           |-> [num |-> Car(params, real_returns, market_returns),
                         den |-> params.den],
      Real_Return   |-> SumSeq(real_returns) ]

\* Lines 94-119: the trade window and the record.
Emit(self, row, event_idx, params, win) ==
    Outcome("record", row, event_idx, params, win,
            ResultRecord(row, params,
                         Take(self.market_data, row.ticker, win),
                         Take(self.market_data, self.benchmark_ticker, win)))

\* Lines 91-92: if not params: continue
WithParams(self, row, event_idx, params) ==
    IF params.kind = "ValueError"
    THEN Outcome("ValueError", row, event_idx, params, <<>>, NoRecord)
    ELSE IF NotParams(params)
    THEN Outcome("no_history", row, event_idx, params, <<>>, NoRecord)
    ELSE Emit(self, row, event_idx, params, TradeWindow(self, event_idx))

\* Lines 84-90: try get_loc / except KeyError, then the risk model.
AtLocation(self, row, loc) ==
    IF ~loc.found
    THEN Outcome(IF OnKeyError = "continue" THEN "no_date" ELSE "KeyError",
                 row, 0, NoParams, <<>>, NoRecord)
    ELSE WithParams(self, row, loc.pos,
                    calculate_expected_return(self, row.ticker, loc.pos))

\* One pass of "for idx, row in events_df.iterrows():".
LoopBody(self, row) ==
    IF TickerMissing(self, row.ticker)
    THEN Outcome("no_ticker", row, 0, NoParams, <<>>, NoRecord)
    ELSE AtLocation(self, row, get_loc(self.market_data, to_datetime(row.event_date)))

Raised(kind) == kind \in {"KeyError", "ValueError"}

\* (mutant) the pass that appends a record also cuts the store down to the
\* rows up to the event's trade window.
AppendResult_CutStore(self, o) ==
    IF o.kind = "record"
    THEN [self EXCEPT !.results = Append(@, o.record),
                      !.market_data.rows = SubSeq(@, 1, o.event_idx + 1)]
    ELSE self

\* self.results.append(record)
AppendResult(self, o) ==
    IF o.kind = "record" THEN [self EXCEPT !.results = Append(@, o.record)] ELSE self

\* pd.DataFrame(list of dicts): a row per dict, in order; the columns are the
\* keys, and there are none for an empty list.
DataFrame(records) ==
    [ kind    |-> "DataFrame",
      columns |-> IF records = <<>> THEN <<>>
                  ELSE <<"Ticker", "Event_Date", "Quality_Score", "CAR", "Real_Return">>,
      rows    |-> records ]

Raise(exc) == [kind |-> exc, columns |-> <<>>, rows |-> <<>>]

NoReturn == [kind |-> "none", columns |-> <<>>, rows |-> <<>>]

\* return pd.DataFrame(self.results)
Return(self) == DataFrame(self.results)

\* ------------------------------------------------------ callers
Symbols == Range(Tickers) \cup {"XBI"}

\* The places (symbol, day) of the missing prices of a download of n days:
\* none, or one.
HoleSets(n) ==
    { {} } \cup { {h} : h \in Symbols \X (1..n) }

\* rows of an events_df
EventRows ==
    { [ticker |-> Tickers[1], event_date |-> [ymd |-> d],
       quality_score |-> "High", catalyst_type |-> "PHASE3"] : d \in 1..MaxDays }
    \cup
    { [ticker |-> UnknownTicker, event_date |-> [ymd |-> 2],
       quality_score |-> "Low", catalyst_type |-> "PHASE3"] }

NoRow == [ticker |-> "", event_date |-> [ymd |-> 0], quality_score |-> "",
          catalyst_type |-> ""]

NoOutcome == Outcome("none", NoRow, 0, NoParams, <<>>, NoRecord)

\* ------------------------------------------------------ processable events
\* The dates of a frame's index.
IndexDates(frame) == { frame.rows[k].date : k \in 1..Len(frame.rows) }

\* The position of a date the index holds.
PositionOf(frame, date) ==
    CHOOSE p \in 0..(Len(frame.rows) - 1) : frame.rows[p + 1].date = date

\* A row whose event is processable: its ticker is a column of the store, its
\* date is a date of the index, and the estimation window starts at a position
\* >= 0.
ProcessableRow(s, row) ==
    /\ row.ticker \in Range(s.market_data.columns)
    /\ row.event_date.ymd \in IndexDates(s.market_data)
    /\ PositionOf(s.market_data, row.event_date.ymd)
         - Abs(s.event_window[1]) - s.estimation_window >= 0

RowKey(row) == <<row.ticker, row.event_date.ymd, row.quality_score>>

RecordKey(rec) == <<rec.Ticker, rec.Event_Date, rec.Quality_Score>>

\* ------------------------------------------------------ state
VARIABLES
    self,       \* the BiotechEventBacktester instance
    data,       \* what the provider returned to fetch_market_data
    pc,         \* "new", "ready", "loop" (inside run_event_study's loop),
                \* "returned", "raised", "calc"
    nrows,      \* len(events_df) of the run_event_study call in progress or last made
    i,          \* rows of it the loop has consumed
    last,       \* what the last pass of the loop did
    skipped,    \* passes of this call that ended in continue
    expected,   \* the processable rows of this call, in input order
    before,     \* self.results when this call began
    returned,   \* what the last run_event_study call returned or raised
    params      \* what the last direct calculate_expected_return call returned

vars == <<self, data, pc, nrows, i, last, skipped, expected, before, returned, params>>

NoCall == [stock_ticker |-> "", event_date_idx |-> 0, result |-> NoParams]

InitWith(configs) ==
    /\ \E c \in configs :
         self = BiotechEventBacktester("XBI", c.estimation_window, c.event_window)
    /\ data = NoFrame
    /\ pc = "new"
    /\ nrows = 0
    /\ i = 0
    /\ last = NoOutcome
    /\ skipped = 0
    /\ expected = <<>>
    /\ before = <<>>
    /\ returned = NoReturn
    /\ params = NoCall

Init == InitWith(Configs)

InitAnyWindow == InitWith(ConfigsAnyWindow)

\* backtester.fetch_market_data(tickers, start_date, end_date), once, before
\* anything else is called on the engine.
FetchMarketData ==
    /\ pc = "new"
    /\ \E n \in 1..MaxDays : \E holes \in HoleSets(n) : \E path \in PricePaths :
         /\ data' = Download(Tickers \o <<self.benchmark_ticker>>, n, holes, path)
         /\ self' = fetch_market_data(self, Tickers, data')
    /\ pc' = "ready"
    /\ UNCHANGED <<nrows, i, last, skipped, expected, before, returned, params>>

\* No call is in progress and none raised, and self.results is below the cap:
\* the caller makes another call.
Idle ==
    /\ pc \in {"ready", "returned", "calc"}
    /\ Len(self.results) < MaxResults

\* backtester.run_event_study(events_df) is called with a frame of n rows:
\* with no row the loop body never runs and the call returns at once.
CallRunEventStudy ==
    /\ Idle
    /\ \E n \in 0..MaxEvents :
         /\ nrows' = n
         /\ pc' = IF n = 0 THEN "returned" ELSE "loop"
         /\ returned' = IF n = 0 THEN Return(self) ELSE NoReturn
    /\ i' = 0
    /\ last' = NoOutcome
    /\ skipped' = 0
    /\ expected' = <<>>
    /\ before' = self.results
    /\ params' = NoCall
    /\ UNCHANGED <<self, data>>

\* The state after the pass o of the loop: an exception leaves the call, the
\* pass over the last row is followed by the return statement.
AfterPass(o) ==
    /\ self' = AppendResult(self, o)
    /\ last' = o
    /\ i' = i + 1
    /\ skipped' = IF o.kind \in {"no_ticker", "no_date", "no_history"}
                  THEN skipped + 1 ELSE skipped
    /\ expected' = IF ProcessableRow(self, o.row)
                   THEN Append(expected, RowKey(o.row)) ELSE expected
    /\ pc' = IF Raised(o.kind) THEN "raised"
             ELSE IF i + 1 = nrows THEN "returned" ELSE "loop"
    /\ returned' = IF Raised(o.kind) THEN Raise(o.kind)
                   ELSE IF i + 1 = nrows THEN Return(self') ELSE NoReturn

\* One pass of the loop of run_event_study over the next row of events_df.
NextRow ==
    /\ pc = "loop"
    /\ \E row \in EventRows : AfterPass(LoopBody(self, row))
    /\ UNCHANGED <<data, nrows, before, params>>

\* backtester.calculate_expected_return(stock_ticker, event_date_idx), called
\* directly with a column and a position of the store.
CalculateExpectedReturn ==
    /\ Idle
    /\ \E t \in Range(self.market_data.columns) :
       \E idx \in 0..(Len(self.market_data.rows) - 1) :
         params' = [stock_ticker |-> t, event_date_idx |-> idx,
                    result |-> calculate_expected_return(self, t, idx)]
    /\ pc' = IF params'.result.kind = "ValueError" THEN "raised" ELSE "calc"
    /\ returned' = IF params'.result.kind = "ValueError" THEN Raise("ValueError")
                   ELSE NoReturn
    /\ nrows' = 0
    /\ i' = 0
    /\ last' = NoOutcome
    /\ skipped' = 0
    /\ expected' = <<>>
    /\ before' = self.results
    /\ UNCHANGED <<self, data>>

Next == FetchMarketData \/ CallRunEventStudy \/ NextRow \/ CalculateExpectedReturn

Spec == Init /\ [][Next]_vars

SpecAnyWindow == InitAnyWindow /\ [][Next]_vars

\* ====================================================== properties
Store == self.market_data
Lead == self.event_window[1]
Lag == self.event_window[2]

\* The last pass of the loop reached calculate_expected_return.
RiskModelAsked == last.kind \in {"no_history", "record", "ValueError"}

\* The returns of a symbol at the positions of a window.
ReturnsAt(sym, positions) ==
    [ k \in 1..Len(positions) |-> Store.rows[positions[k] + 1].val[sym].v ]

\* ------------------------------------------------------ C1
\* C1: when run_event_study returns, the returned frame holds exactly one
\* record per processable row of that call's events_df, in input order, and
\* nothing else (no record of an earlier call), also on a second or later
\* call on the same engine.
C1_RunReturnsOwnRecords ==
    pc = "returned" =>
        /\ Len(returned.rows) = Len(expected)
        /\ \A k \in 1..Len(expected) : RecordKey(returned.rows[k]) = expected[k]

\* What the code does instead: the returned frame is self.results, which holds
\* the records of every earlier call followed by this call's records.
RunReturnsAccumulated ==
    pc = "returned" =>
        /\ returned.rows = self.results
        /\ Len(returned.rows) = Len(before) + Len(expected)
        /\ SubSeq(returned.rows, 1, Len(before)) = before
        /\ \A k \in 1..Len(expected) :
             RecordKey(returned.rows[Len(before) + k]) = expected[k]

\* ------------------------------------------------------ C2
\* Every position of a regression sample lies in [est_start, est_end) with
\* est_end = event position - |lead|, is below win_start, and is no position
\* of the trade window.
NoLookAhead(est, event_idx) ==
    /\ \A k \in 1..Len(est) :
         /\ est[k] >= event_idx - Abs(Lead) - self.estimation_window
         /\ est[k] < event_idx - Abs(Lead)
         /\ est[k] < event_idx + Lead
    /\ Range(est) \cap ((event_idx + Lead)..(event_idx + Lag)) = {}

\* C2: no look-ahead: whenever calculate_expected_return fits the risk model
\* (inside run_event_study or called directly), every position of its sample
\* is in [est_start, est_end), strictly below event position - |lead| and
\* strictly below win_start, and the sample shares no position with the trade
\* window, neither the nominal one nor the one the record was summed over.
C2_NoLookAhead ==
    /\ last.params.kind = "params" =>
         /\ NoLookAhead(last.params.est, last.event_idx)
         /\ Range(last.params.est) \cap Range(last.win) = {}
    /\ params.result.kind = "params" =>
         NoLookAhead(params.result.est, params.event_date_idx)

C2_Witness ==
    /\ last.kind = "record"
    /\ Lead < 0
    /\ Len(last.params.est) >= 2
    /\ Len(last.win) >= 2

\* ------------------------------------------------------ C3
\* The engine of the example: 100 aligned trading days, window (-5, +1),
\* estimation length 60.
DefaultEstimationWindow == 60
ScenarioDays == 101
ScenarioEngine ==
    fetch_market_data(
        BiotechEventBacktester("XBI", DefaultEstimationWindow, <<-5, 1>>), Tickers,
        Download(Tickers \o <<"XBI">>, ScenarioDays, {},
                 CHOOSE path \in PricePaths : path["XBI"][1] # path["XBI"][2]))

ScenarioRow(position) ==
    [ticker |-> Tickers[1],
     event_date |-> [ymd |-> ScenarioEngine.market_data.rows[position + 1].date],
     quality_score |-> "High", catalyst_type |-> "PHASE3"]

\* (does not depend on the state: it is evaluated in the initial states)
ScenarioAB ==
    /\ Len(ScenarioEngine.market_data.rows) = ScenarioDays - 1
    /\ calculate_expected_return(ScenarioEngine, Tickers[1], 70).kind = "params"
    /\ calculate_expected_return(ScenarioEngine, Tickers[1], 65).kind = "params"
    /\ calculate_expected_return(ScenarioEngine, Tickers[1], 64).kind = "None"
    /\ calculate_expected_return(ScenarioEngine, Tickers[1], 50).kind = "None"
    /\ LoopBody(ScenarioEngine, ScenarioRow(70)).kind = "record"
    /\ LoopBody(ScenarioEngine, ScenarioRow(50)).kind = "no_history"

\* C3: calculate_expected_return returns None exactly when
\* event position - |lead| - estimation_window < 0 (at 0 it returns a model),
\* called directly or from the loop; a pass whose risk model is None appends
\* no record (self.results grows by one per pass that did not skip); and in
\* the example engine position 70 yields a record and position 50 none.
C3_InsufficientHistory ==
    /\ pc = "calc" =>
         /\ (params.result.kind = "None")
              <=> (params.event_date_idx - Abs(Lead) - self.estimation_window < 0)
         /\ (params.result.kind = "params")
              <=> (params.event_date_idx - Abs(Lead) - self.estimation_window >= 0)
    /\ RiskModelAsked =>
         /\ (last.params.kind = "None")
              <=> (last.event_idx - Abs(Lead) - self.estimation_window < 0)
         /\ (last.params.kind = "None") <=> (last.kind = "no_history")
         /\ (last.params.kind = "params") <=> (last.kind = "record")
    /\ pc \in {"loop", "returned"} =>
         Len(self.results) = Len(before) + i - skipped
    /\ last.kind = "no_history" => Len(self.results) - Len(before) < i
    /\ pc = "new" => ScenarioAB

C3_Witness ==
    /\ last.kind = "no_history"
    /\ last.event_idx - Abs(Lead) - self.estimation_window = -1
    /\ Len(self.results) > Len(before)

\* the boundary: an estimation window that starts at position 0 is accepted
C3_BoundaryReached ==
    /\ last.kind = "record"
    /\ last.event_idx - Abs(Lead) - self.estimation_window = 0

\* ------------------------------------------------------ C4
\* C4: run_event_study never raises; a pass emits a record exactly for a
\* processable row and skips (no record) exactly for a row with an unknown
\* ticker, a date that is not a date of the index, or too little history; and
\* skips do not end the loop: every row of the frame is passed over before the
\* call returns, so a processable row after skipped ones gets its record.
C4_SkipsNeverAbort ==
    /\ pc # "raised"
    /\ last.kind # "none" =>
         /\ (last.kind = "record") <=> ProcessableRow(self, last.row)
         /\ (last.kind = "no_ticker")
              <=> (last.row.ticker \notin Range(Store.columns))
         /\ (last.kind = "no_date")
              <=> /\ last.row.ticker \in Range(Store.columns)
                  /\ last.row.event_date.ymd \notin IndexDates(Store)
         /\ (last.kind = "no_history")
              <=> /\ last.row.ticker \in Range(Store.columns)
                  /\ last.row.event_date.ymd \in IndexDates(Store)
                  /\ ~ProcessableRow(self, last.row)
         /\ last.kind = "record" =>
              /\ self.results # <<>>
              /\ self.results[Len(self.results)] = last.record
              /\ RecordKey(last.record) = RowKey(last.row)
    /\ pc \in {"loop", "returned"} =>
         Len(self.results) = Len(before) + i - skipped
    /\ pc = "loop" => i < nrows
    /\ pc = "returned" => i = nrows

C4_Witness ==
    /\ pc = "returned"
    /\ nrows >= 2
    /\ skipped >= 1
    /\ last.kind = "record"

\* ------------------------------------------------------ C5
\* C5: for every record, with n the days of its trade window, r the security
\* returns and b the benchmark returns on them: Real_Return = sum r, and
\* CAR = sum (r_i - (alpha + beta * b_i)) = Real_Return - alpha*n - beta*sum b
\* (all over the common denominator den); so alpha = beta = 0 gives
\* CAR = Real_Return, and an all-zero benchmark gives Real_Return - alpha*n.
C5_CarFormula ==
    last.kind = "record" =>
        LET rec == last.record
            prm == last.params
            n   == Len(last.win)
            r   == ReturnsAt(rec.Ticker, last.win)
            b   == ReturnsAt(self.benchmark_ticker, last.win)
        IN  /\ rec.Real_Return = SumSeq(r)
            /\ rec.CAR.den = prm.den
            /\ prm.den > 0
            /\ rec.CAR.num =
                 SumSeq([ k \in 1..n |-> prm.den * r[k] - (prm.alpha + prm.beta * b[k]) ])
            /\ rec.CAR.num =
                 prm.den * rec.Real_Return - prm.alpha * n - prm.beta * SumSeq(b)
            /\ (prm.alpha = 0 /\ prm.beta = 0)
                 => rec.CAR.num = rec.CAR.den * rec.Real_Return
            /\ (\A k \in 1..n : b[k] = 0)
                 => rec.CAR.num = prm.den * rec.Real_Return - prm.alpha * n

C5_Witness ==
    /\ last.kind = "record"
    /\ last.params.alpha # 0
    /\ last.params.beta # 0
    /\ last.params.den > 1
    /\ Len(last.win) >= 2
    /\ last.record.Real_Return # 0

\* alpha = beta = 0 with a non-zero realized return
C5_DegenerateReached ==
    /\ last.kind = "record"
    /\ last.params.alpha = 0
    /\ last.params.beta = 0
    /\ last.record.Real_Return # 0
    /\ Len(last.win) >= 1

\* ------------------------------------------------------ C6
\* C6: after fetch_market_data, a date of the download is a date of the
\* store's index exactly when every symbol has a price on that row and on the
\* row before it; every symbol has a return (the difference of the two
\* log-prices) at every position; the columns are the tickers and the
\* benchmark; the dates are strictly ascending.
C6_Alignment ==
    pc # "new" =>
        /\ Range(Store.columns) = Symbols
        /\ \A d \in 1..Len(data.rows) :
             (data.rows[d].date \in IndexDates(Store))
               <=> /\ d > 1
                   /\ \A s \in Symbols :
                        data.rows[d].val[s].ok /\ data.rows[d - 1].val[s].ok
        /\ \A k \in 1..Len(Store.rows) :
             \E d \in 2..Len(data.rows) :
                /\ data.rows[d].date = Store.rows[k].date
                /\ \A s \in Symbols :
                     /\ Store.rows[k].val[s].ok
                     /\ Store.rows[k].val[s].v
                          = data.rows[d].val[s].v - data.rows[d - 1].val[s].v
        /\ \A k \in 1..(Len(Store.rows) - 1) :
             Store.rows[k].date < Store.rows[k + 1].date

C6_Witness ==
    /\ pc # "new"
    /\ \E d \in 1..Len(data.rows) : \E s \in Symbols : ~data.rows[d].val[s].ok
    /\ \E k \in 1..(Len(Store.rows) - 1) :
         Store.rows[k + 1].date > Store.rows[k].date + 1

\* ------------------------------------------------------ C7
\* C7: every record is summed over exactly the lag - lead + 1 positions
\* win_start..win_end, each a position of the series (a window that reaches
\* past the last position yields no record).
C7_FullTradeWindow ==
    last.kind = "record" =>
        /\ Len(last.win) = Lag - Lead + 1
        /\ \A k \in 1..Len(last.win) :
             /\ last.win[k] = last.event_idx + Lead + k - 1
             /\ last.win[k] \in 0..(Len(Store.rows) - 1)
        /\ last.event_idx + Lag <= Len(Store.rows) - 1

\* What the code does instead: the record is summed over the positions of
\* win_start..win_end that exist, which may be fewer, or none.
RecordOverClippedWindow ==
    last.kind = "record" =>
        /\ Range(last.win) =
             ((last.event_idx + Lead)..(last.event_idx + Lag))
               \cap (0..(Len(Store.rows) - 1))
        /\ \A k \in 1..(Len(last.win) - 1) : last.win[k + 1] = last.win[k] + 1

\* ------------------------------------------------------ C8
\* C8: fetch_market_data never completes leaving an engine whose aligned
\* return series is empty.
C8_NoEmptyStore ==
    pc # "new" => Len(Store.rows) > 0

\* ------------------------------------------------------ C9
\* C9: once the store is built, no step of run_event_study and no
\* calculate_expected_return call changes the store (its index, its columns,
\* any return value) or the engine's configuration.
C9_StoreReadOnly ==
    [][ pc # "new" =>
          /\ self'.market_data = self.market_data
          /\ self'.benchmark_ticker = self.benchmark_ticker
          /\ self'.estimation_window = self.estimation_window
          /\ self'.event_window = self.event_window ]_vars

C9_Witness ==
    /\ pc = "returned"
    /\ skipped >= 1
    /\ Len(self.results) > Len(before)
    /\ Len(Store.rows) >= 2

\* ------------------------------------------------------ C10
\* C10: every pass that gets past the history check (est_start >= 0), for any
\* estimation_window >= 0 and any sign of lead, has win_start >= 0 and
\* win_start >= est_end, and the positions its record is summed over start at
\* win_start or later: the slice never wraps to the end of the series.
C10_WindowStartGuarded ==
    /\ last.kind \in {"record", "ValueError"} =>
         /\ last.event_idx - Abs(Lead) - self.estimation_window >= 0
         /\ WinStart(self, last.event_idx) >= 0
         /\ WinStart(self, last.event_idx) >= EstEnd(self, last.event_idx)
    /\ last.kind = "record" =>
         \A k \in 1..Len(last.win) : last.win[k] >= WinStart(self, last.event_idx)

C10_Witness ==
    /\ last.kind = "ValueError"
    /\ self.estimation_window = 0
    /\ Lead < 0
    /\ WinStart(self, last.event_idx) = 0

C10_NegativeLeadRecord ==
    /\ last.kind = "record"
    /\ Lead < 0
    /\ WinStart(self, last.event_idx) = EstEnd(self, last.event_idx)

====
